---- MODULE Spec2Model ----
(***************************************************************************)
(* Model of the toolkit-rag client: the two document pipelines             *)
(*   SuperClaudeDocumentProcessor (rag_client/document_processor.py) and   *)
(*   DocumentProcessor            (rag_client/processor.py):               *)
(* the path classifier, the inclusion filter, the project walker and the   *)
(* upload loop with its statistics; the index and search commands (cli.py  *)
(* and the command of document_processor.py) with their health check; the  *)
(* functions that turn an HTTP response into a boolean.                    *)
(*                                                                         *)
(* Paths are strings, as in the source; a path is the normalised string    *)
(* of a pathlib.Path (segments joined by "/").                             *)
(***************************************************************************)
EXTENDS Integers, Sequences, FiniteSets, TLC

VARIABLES
    impl,             \* which pipeline runs: "index_project" | "process_project"
    include_patterns, \* the inclusion spec: subset of {"code","docs","configs","tests","all"}
    \* ---- one call of the classifier / the inclusion filter ----
    fpc,              \* "idle" | "input" | "classified" | "filtered"
    file_path,        \* the path handed to the classifier / filter
    st_size,          \* byte size the file system reports for file_path
    stat_ok,          \* FALSE when file_path.stat() raises OSError
    doc_type,         \* result of the classifier (process_project: doc_type of the current file)
    language,         \* result of the language lookup ("none" for None)
    included,         \* result of the inclusion filter
    \* ---- one indexing run ----
    pc,               \* position of the run ("wait": a command has not called it yet)
    project_path,     \* the root path as the walker uses it
    root_exists,      \* project_path.exists()
    listing,          \* the regular files glob() yields, in glob order (full path strings)
    batch_size,       \* index_project's batch_size argument
    files_to_process, \* the worklist: (path, metadata) pairs in index_project, paths in process_project
    stats,            \* total_files, successful, failed, by_type
    i,                \* start offset of the current batch / current item
    batch,            \* worklist positions of the batch being gathered
    task,             \* per worklist position: state of its upload
    batches,          \* the batches issued so far, in order
    uploads,          \* number of settled uploads per outcome (nostat: stat() raised, no upload)
    attempts,         \* per worklist position: how many times its upload was started
    gone,             \* worklist positions whose file was deleted after the walk
    missed,           \* worklist positions whose stat() or open() found the file deleted
    \* ---- one command of the command line ----
    command,          \* "none" | "index" | "search"
    cpc,              \* position of the command: "idle" | "start" | "checked" | "run" | "searched" | "exit"
    requests,         \* the requests the command itself sent, in order: "health", "search"
    response,         \* the last HTTP response received: [kind, status]
    healthy,          \* what client.health_check() returned
    results,          \* number of results client.search() returned
    printable,        \* whether every result has the shape the print loop of cmd_search handles
    report,           \* the outcome message the command printed
    exit_code,        \* exit code of the process; -1 while it runs
    \* ---- one call of a function that interprets an HTTP response ----
    hpc,              \* "idle" | "called" | "responded" | "returned"
    caller,           \* the function called
    returned,         \* the boolean it returned
    \* ---- one call of a client's search ----
    spc,              \* "idle" | "call" | "ids" | "returned"
    sclient,          \* the client class: "RAGClient" | "SuperClaudeRAGClient"
    smode,            \* SearchMode value: "semantic" | "hybrid" | "keyword"
    squery,           \* the query string
    slimit,           \* the result limit
    sfile_types,      \* the file_types argument (<< >> for None)
    sent,             \* the requests sent to the remote service, in order
    sresult,          \* number of results returned; -1 before the return, -2 when the call raised
    \* ---- one lifecycle operation of the server manager ----
    mpc,              \* "idle" | "call" | "restart" | "start" | "up" | "poll" | "returned"
    mgr,              \* the module of the manager: "manager" | "rag_manager"
    deployment,       \* DeploymentType value
    op,               \* "start_server" | "restart_server" | "update_services"
    commands,         \* the docker commands issued, in order, each with its return code (the
                      \* "compose ps" listing of get_status, which health_check does not read, is left out)
    prereq,           \* what check_prerequisites returned: "none" | "passed" | "failed"
    attempt,          \* loop variable of the readiness loop
    polls,            \* the results of the health checks of the readiness loop, in order
    env,              \* what the services answered to the last health check
    mresult           \* "none" | "true" | "false"

filterVars == <<fpc, file_path, st_size, stat_ok, doc_type, language, included>>
runVars == <<pc, project_path, root_exists, listing, batch_size, files_to_process, stats, i,
             batch, task, batches, uploads, attempts, gone, missed>>
cliVars == <<command, cpc, requests, response, healthy, results, printable, report,
             exit_code>>
httpVars == <<hpc, caller, returned>>
searchVars == <<spc, sclient, smode, squery, slimit, sfile_types, sent, sresult>>
mgrVars == <<mpc, mgr, deployment, op, commands, prereq, attempt, polls, env, mresult>>
vars == <<impl, include_patterns, filterVars, runVars, cliVars, httpVars, searchVars, mgrVars>>

(***************************************************************************)
(* Bounds of the model.                                                    *)
(***************************************************************************)
MaxDepth == 2        \* directory segments above the file name
MaxFiles == 2        \* files in a generated project directory
MaxDeleted == 1      \* files deleted during a run
MaxBatchSize == MaxFiles + 3    \* largest batch_size tried
MaxTenBatch == 3     \* largest batch_size tried on the ten-file directory

(***************************************************************************)
(* Strings.                                                                *)
(***************************************************************************)
CharAt(s, k) == SubSeq(s, k, k)

LowerChar(c) ==
    CASE c = "A" -> "a" [] c = "B" -> "b" [] c = "C" -> "c" [] c = "D" -> "d"
      [] c = "E" -> "e" [] c = "F" -> "f" [] c = "G" -> "g" [] c = "H" -> "h"
      [] c = "I" -> "i" [] c = "J" -> "j" [] c = "K" -> "k" [] c = "L" -> "l"
      [] c = "M" -> "m" [] c = "N" -> "n" [] c = "O" -> "o" [] c = "P" -> "p"
      [] c = "Q" -> "q" [] c = "R" -> "r" [] c = "S" -> "s" [] c = "T" -> "t"
      [] c = "U" -> "u" [] c = "V" -> "v" [] c = "W" -> "w" [] c = "X" -> "x"
      [] c = "Y" -> "y" [] c = "Z" -> "z" [] OTHER -> c

\* str.lower()
RECURSIVE Lower(_)
Lower(s) == IF Len(s) = 0 THEN "" ELSE LowerChar(CharAt(s, 1)) \o Lower(Tail(s))

\* pat in s
Contains(s, pat) ==
    \E k \in 1..(Len(s) - Len(pat) + 1) : SubSeq(s, k, k + Len(pat) - 1) = pat

\* str.startswith
StartsWith(s, pat) == Len(pat) <= Len(s) /\ SubSeq(s, 1, Len(pat)) = pat

\* str.rfind(c) + 1: the last position of character c in s, 0 when absent
RFind(s, c) ==
    LET hits == {k \in 1..Len(s) : CharAt(s, k) = c}
    IN  IF hits = {} THEN 0 ELSE CHOOSE k \in hits : \A m \in hits : m <= k

(***************************************************************************)
(* pathlib.PurePosixPath over a normalised path string.                    *)
(***************************************************************************)
\* Path.name: the last component; "" for the path "." (no component) and for a root
Name(p) == IF p = "." THEN "" ELSE SubSeq(p, RFind(p, "/") + 1, Len(p))

\* Path.suffix: from the last "." of the name, unless the name starts or ends there
Suffix(p) ==
    LET name == Name(p)
        d == RFind(name, ".")
    IN  IF 1 < d /\ d < Len(name) THEN SubSeq(name, d, Len(name)) ELSE ""

\* Path.parts: the root ("/", or "//" for exactly two leading slashes) and the
\* components; no part for the path "."
RECURSIVE Parts(_)
Parts(p) ==
    LET hits == {k \in 1..Len(p) : CharAt(p, k) = "/"}
        first == IF hits = {} THEN 0 ELSE CHOOSE k \in hits : \A m \in hits : k <= m
    IN  IF Len(p) = 0 \/ p = "." THEN << >>
        ELSE IF first = 0 THEN <<p>>
        ELSE IF StartsWith(p, "//") /\ ~StartsWith(p, "///")
             THEN <<"//">> \o Parts(SubSeq(p, 3, Len(p)))
        ELSE IF first = 1 THEN <<"/">> \o Parts(SubSeq(p, 2, Len(p)))
        ELSE <<SubSeq(p, 1, first - 1)>> \o Parts(SubSeq(p, first + 1, Len(p)))

(***************************************************************************)
(* DocumentType and the classifiers.                                       *)
(***************************************************************************)
DocumentType == {"code", "documentation", "configuration", "test", "other"}

\* ---- SuperClaudeDocumentProcessor (document_processor.py) ----
sc_code_extensions ==
    {".py", ".js", ".ts", ".tsx", ".jsx", ".java", ".cpp", ".c", ".h",
     ".cs", ".php", ".rb", ".go", ".rs", ".swift", ".kt", ".scala",
     ".r", ".m", ".mm", ".sql", ".sh", ".bash", ".ps1", ".lua", ".pl"}

sc_doc_extensions ==
    {".md", ".txt", ".rst", ".adoc", ".tex", ".doc", ".docx", ".pdf"}

sc_config_extensions ==
    {".json", ".yaml", ".yml", ".toml", ".ini", ".conf", ".cfg",
     ".env", ".properties", ".xml", ".plist"}

sc_test_patterns ==
    {"test_", "_test", ".test.", ".spec.", "tests/", "test/",
     "__tests__/", "spec/", "cypress/", "e2e/"}

\* ---- DocumentProcessor (processor.py) ----
code_extensions ==
    {".py", ".js", ".ts", ".tsx", ".jsx", ".java", ".cpp", ".c", ".h",
     ".cs", ".php", ".rb", ".go", ".rs", ".swift", ".kt", ".scala",
     ".r", ".m", ".mm", ".sql", ".sh", ".bash", ".ps1", ".lua", ".pl",
     ".dart", ".vue", ".svelte", ".elm", ".clj", ".cljs", ".hs", ".ml",
     ".fs", ".vb", ".pas", ".asm", ".s", ".scss", ".sass", ".less", ".css"}

doc_extensions ==
    {".md", ".txt", ".rst", ".adoc", ".org", ".tex", ".rtf",
     ".pdf", ".doc", ".docx", ".odt", ".html", ".htm", ".xml"}

config_extensions ==
    {".json", ".yaml", ".yml", ".toml", ".ini", ".cfg", ".conf",
     ".env", ".properties", ".plist", ".config"}

test_patterns ==
    {"test_", "_test", ".test.", ".spec.", "_spec", "tests/",
     "test/", "__test__", "__tests__"}

\* variant: an unrecognised extension falls into the last extension set
ByExtension_NoOther(extension, code, doc, config) ==
    IF extension \in code THEN "code"
    ELSE IF extension \in doc THEN "documentation"
    ELSE "configuration"

\* the extension branch both classifiers share
ByExtension(extension, code, doc, config) ==
    IF extension \in code THEN "code"
    ELSE IF extension \in doc THEN "documentation"
    ELSE IF extension \in config THEN "configuration"
    ELSE "other"

\* any(pattern in path_str for pattern in patterns)
AnyPatternIn(path_str, patterns) == \E pattern \in patterns : Contains(path_str, pattern)

\* variant: the extension is looked up first, the test patterns only for the rest
_get_file_type_ExtFirst(p) ==
    LET by_ext == ByExtension(Lower(Suffix(p)), sc_code_extensions, sc_doc_extensions,
                              sc_config_extensions)
    IN  IF by_ext # "other" THEN by_ext
        ELSE IF AnyPatternIn(Lower(p), sc_test_patterns) THEN "test"
        ELSE "other"

\* SuperClaudeDocumentProcessor._get_file_type
_get_file_type(p) ==
    IF AnyPatternIn(Lower(p), sc_test_patterns) THEN "test"
    ELSE ByExtension(Lower(Suffix(p)), sc_code_extensions, sc_doc_extensions,
                     sc_config_extensions)

\* DocumentProcessor._classify_document
_classify_document(p) ==
    IF AnyPatternIn(Lower(p), test_patterns) THEN "test"
    ELSE ByExtension(Lower(Suffix(p)), code_extensions, doc_extensions,
                     config_extensions)

(***************************************************************************)
(* The language lookup.                                                    *)
(***************************************************************************)
\* DocumentProcessor.language_map
language_map ==
    [ext \in {".py", ".js", ".ts", ".java", ".cpp", ".c", ".h", ".cs", ".php", ".rb", ".go",
              ".rs", ".swift", ".kt", ".scala", ".sql", ".sh", ".bash", ".ps1", ".html",
              ".css", ".scss", ".sass", ".vue", ".svelte", ".dart"} |->
        CASE ext = ".py" -> "python" [] ext = ".js" -> "javascript" [] ext = ".ts" -> "typescript"
          [] ext = ".java" -> "java" [] ext = ".cpp" -> "cpp" [] ext = ".c" -> "c"
          [] ext = ".h" -> "c" [] ext = ".cs" -> "csharp" [] ext = ".php" -> "php"
          [] ext = ".rb" -> "ruby" [] ext = ".go" -> "go" [] ext = ".rs" -> "rust"
          [] ext = ".swift" -> "swift" [] ext = ".kt" -> "kotlin" [] ext = ".scala" -> "scala"
          [] ext = ".sql" -> "sql" [] ext = ".sh" -> "bash" [] ext = ".bash" -> "bash"
          [] ext = ".ps1" -> "powershell" [] ext = ".html" -> "html" [] ext = ".css" -> "css"
          [] ext = ".scss" -> "scss" [] ext = ".sass" -> "sass" [] ext = ".vue" -> "vue"
          [] ext = ".svelte" -> "svelte" [] ext = ".dart" -> "dart"]

\* SuperClaudeDocumentProcessor._get_language: extension_map
extension_map ==
    [ext \in {".py", ".js", ".ts", ".tsx", ".jsx", ".java", ".cpp", ".c", ".h", ".cs", ".php",
              ".rb", ".go", ".rs", ".swift", ".kt", ".scala", ".r", ".m", ".sql", ".sh",
              ".bash", ".ps1"} |->
        CASE ext = ".py" -> "python" [] ext = ".js" -> "javascript" [] ext = ".ts" -> "typescript"
          [] ext = ".tsx" -> "typescript" [] ext = ".jsx" -> "javascript" [] ext = ".java" -> "java"
          [] ext = ".cpp" -> "cpp" [] ext = ".c" -> "c" [] ext = ".h" -> "c"
          [] ext = ".cs" -> "csharp" [] ext = ".php" -> "php" [] ext = ".rb" -> "ruby"
          [] ext = ".go" -> "go" [] ext = ".rs" -> "rust" [] ext = ".swift" -> "swift"
          [] ext = ".kt" -> "kotlin" [] ext = ".scala" -> "scala" [] ext = ".r" -> "r"
          [] ext = ".m" -> "objective-c" [] ext = ".sql" -> "sql" [] ext = ".sh" -> "bash"
          [] ext = ".bash" -> "bash" [] ext = ".ps1" -> "powershell"]

\* dict.get(key): the entry, None ("none") when there is none
Get(map, key) == IF key \in DOMAIN map THEN map[key] ELSE "none"

\* DocumentProcessor._detect_language
_detect_language(p) == Get(language_map, Lower(Suffix(p)))

\* SuperClaudeDocumentProcessor._get_language
_get_language(p) == Get(extension_map, Lower(Suffix(p)))

(***************************************************************************)
(* The inclusion filters.                                                  *)
(***************************************************************************)
\* SuperClaudeDocumentProcessor._should_process_file: allowed_dotfiles
allowed_dotfiles == {".gitignore", ".env.example", ".dockerignore"}

\* SuperClaudeDocumentProcessor._should_process_file: skip_dirs
skip_dirs ==
    {"node_modules", "dist", "build", "__pycache__", ".git",
     "venv", "env", ".venv", "target", "bin", "obj", "out"}

\* DocumentProcessor._should_include_file: exclusions
exclusions ==
    {".git", "__pycache__", "node_modules", ".pytest_cache",
     ".mypy_cache", ".coverage", "dist", "build", ".venv",
     "venv", ".env", "env", ".DS_Store", "Thumbs.db"}

\* DocumentProcessor._should_include_file: 10 * 1024 * 1024
SizeLimit == 10 * 1024 * 1024

\* any(part.startswith('.') for part in path.parts)
HasHiddenPart(p) == \E k \in 1..Len(Parts(p)) : StartsWith(Parts(p)[k], ".")

\* the hidden-path rule of _should_process_file: TRUE when the rule rejects p
HiddenRejects(p) == HasHiddenPart(p) /\ Name(p) \notin allowed_dotfiles

\* any(skip_dir in str(path) for skip_dir in skip_dirs): TRUE when the rule rejects p
DenyRejects(p, denied) == \E d \in denied : Contains(p, d)

\* the category gate of _should_process_file
PatternGate(file_type, patterns) ==
    \/ "code" \in patterns /\ file_type = "code"
    \/ "docs" \in patterns /\ file_type = "documentation"
    \/ "configs" \in patterns /\ file_type = "configuration"
    \/ "tests" \in patterns /\ file_type = "test"

\* variant: the 'all' override is tested before the skip_dirs rule
_should_process_file_AllFirst(p, patterns) ==
    IF HiddenRejects(p) THEN FALSE
    ELSE IF "all" \in patterns THEN TRUE
    ELSE IF DenyRejects(p, skip_dirs) THEN FALSE
    ELSE PatternGate(_get_file_type(p), patterns)

\* SuperClaudeDocumentProcessor._should_process_file
_should_process_file(p, patterns) ==
    IF HiddenRejects(p) THEN FALSE
    ELSE IF DenyRejects(p, skip_dirs) THEN FALSE
    ELSE IF "all" \in patterns THEN TRUE
    ELSE PatternGate(_get_file_type(p), patterns)

\* the category gate of _should_include_file: the if/elif chain on the flags
FlagGate(dtype, include_code, include_docs, include_configs, include_tests) ==
    IF dtype = "code" /\ ~include_code THEN FALSE
    ELSE IF dtype = "documentation" /\ ~include_docs THEN FALSE
    ELSE IF dtype = "configuration" /\ ~include_configs THEN FALSE
    ELSE IF dtype = "test" /\ ~include_tests THEN FALSE
    ELSE TRUE

\* variant: a file of exactly the limit is rejected too
SizeRejects_AtLimit(ok, size) == IF ok THEN size >= SizeLimit ELSE TRUE

\* the size rule of _should_include_file: TRUE when the rule rejects the file
SizeRejects(ok, size) == IF ok THEN size > SizeLimit ELSE TRUE

\* DocumentProcessor._should_include_file
_should_include_file(p, ok, size, include_code, include_docs, include_configs, include_tests) ==
    IF DenyRejects(p, exclusions) THEN FALSE
    ELSE IF SizeRejects(ok, size) THEN FALSE
    ELSE FlagGate(_classify_document(p), include_code, include_docs,
                  include_configs, include_tests)

\* cli.py main: --include-all sets the four include flags
Flag(patterns, name) == name \in patterns \/ "all" \in patterns

\* the classifier of the pipeline m
Classify(m, p) == IF m = "index_project" THEN _get_file_type(p) ELSE _classify_document(p)

\* the language lookup of the pipeline m
Language(m, p) == IF m = "index_project" THEN _get_language(p) ELSE _detect_language(p)

\* the inclusion filter of the pipeline m
ShouldInclude(m, p, ok, size, patterns) ==
    IF m = "index_project" THEN _should_process_file(p, patterns)
    ELSE _should_include_file(p, ok, size, Flag(patterns, "code"), Flag(patterns, "docs"),
                              Flag(patterns, "configs"), Flag(patterns, "tests"))

\* the deny-list of the pipeline m
DenyList(m) == IF m = "index_project" THEN skip_dirs ELSE exclusions

(***************************************************************************)
(* Inputs.                                                                 *)
(***************************************************************************)
Impls == {"index_project", "process_project"}

Patterns == {"code", "docs", "configs", "tests", "all"}

DirNames == {"src", "tests", "node_modules", ".git", "target"}

FileNames == {"main.py", "README.md", "config.yaml", "test_foo.py", "Makefile",
              ".gitignore", "environment.py", "App.Test.JS", "layout.md",
              ".dockerignore", ".eslintrc.json", "run.lua", "index.html"}

\* dir/dir/.../name with at most d directory segments
RECURSIVE PathsUpTo(_)
PathsUpTo(d) ==
    IF d = 0 THEN FileNames
    ELSE FileNames \cup {dir \o "/" \o rest : dir \in DirNames, rest \in PathsUpTo(d - 1)}

Paths == PathsUpTo(MaxDepth)

Sizes == {SizeLimit, SizeLimit + 1}

\* no response received yet
NoResponse == [kind |-> "none", status |-> 0]

\* the command-line variables while no command runs
CliIdle ==
    /\ command = "none"
    /\ cpc = "idle"
    /\ requests = << >>
    /\ response = NoResponse
    /\ healthy = FALSE
    /\ results = 0
    /\ printable = TRUE
    /\ report = "none"
    /\ exit_code = 0 - 1

\* the HTTP-call variables while no single call is examined
HttpIdle ==
    /\ hpc = "idle"
    /\ caller = "none"
    /\ returned = FALSE

\* no search call is examined
SearchIdle ==
    /\ spc = "idle"
    /\ sclient = "RAGClient"
    /\ smode = "semantic"
    /\ squery = ""
    /\ slimit = 5
    /\ sfile_types = << >>
    /\ sent = << >>
    /\ sresult = 0 - 1

\* the environment record before any health check
NoEnv == [api |-> [kind |-> "refused", status |-> 0], database |-> FALSE, ollama |-> FALSE,
          tei |-> FALSE, api_key |-> FALSE]

\* no lifecycle operation is examined
MgrIdle ==
    /\ mpc = "idle"
    /\ mgr = "manager"
    /\ deployment = "local"
    /\ op = "start_server"
    /\ commands = << >>
    /\ prereq = "none"
    /\ attempt = 0
    /\ polls = << >>
    /\ env = NoEnv
    /\ mresult = "none"

\* the run variables while a single classifier / filter call is examined
RunIdle ==
    /\ pc = "idle"
    /\ project_path = "."
    /\ root_exists = TRUE
    /\ listing = << >>
    /\ batch_size = 1
    /\ files_to_process = << >>
    /\ stats = [total_files |-> 0, successful |-> 0, failed |-> 0,
                by_type |-> [t \in DocumentType |-> 0]]
    /\ i = 0
    /\ batch = {}
    /\ task = << >>
    /\ batches = << >>
    /\ uploads = [ok |-> 0, fail |-> 0, raised |-> 0, nostat |-> 0]
    /\ attempts = << >>
    /\ gone = {}
    /\ missed = {}

(***************************************************************************)
(* One call of the classifier followed by one call of the filter.          *)
(***************************************************************************)
InitFilter ==
    /\ impl \in Impls
    /\ file_path \in Paths
    /\ fpc = "input"
    /\ include_patterns = {}
    /\ st_size = 0
    /\ stat_ok = TRUE
    /\ doc_type = "other"
    /\ language = "none"
    /\ included = FALSE
    /\ RunIdle
    /\ CliIdle
    /\ HttpIdle
    /\ SearchIdle
    /\ MgrIdle

\* the two calls made wherever DocumentMetadata is built:
\* _get_file_type(file_path), _get_language(file_path) /
\* _classify_document(file_path), _detect_language(file_path)
CallClassify ==
    /\ fpc = "input"
    /\ doc_type' = Classify(impl, file_path)
    /\ language' = Language(impl, file_path)
    /\ fpc' = "classified"
    /\ UNCHANGED <<searchVars, mgrVars, cliVars, httpVars, impl, include_patterns, file_path, st_size, stat_ok, included, runVars>>

\* _should_process_file(file_path, patterns) / _should_include_file(file_path, flags)
CallShouldInclude ==
    /\ fpc = "classified"
    /\ \E patterns \in SUBSET Patterns, ok \in BOOLEAN, size \in Sizes :
          /\ impl = "index_project" => ok /\ size = SizeLimit
          /\ ~ok => size = SizeLimit
          /\ include_patterns' = patterns
          /\ stat_ok' = ok
          /\ st_size' = size
          /\ included' = ShouldInclude(impl, file_path, ok, size, patterns)
    /\ fpc' = "filtered"
    /\ UNCHANGED <<searchVars, mgrVars, cliVars, httpVars, impl, file_path, doc_type, language, runVars>>

NextFilter == CallClassify \/ CallShouldInclude

SpecFilter == InitFilter /\ [][NextFilter]_vars

(***************************************************************************)
(* One indexing run: walker, upload loop, statistics.                      *)
(***************************************************************************)
Min(a, b) == IF a <= b THEN a ELSE b

\* the root path of a run: index_project globs under Path(project_path) as given
\* (relative or absolute), process_project under Path(project_path).resolve()
RootsOf(m) ==
    IF m = "index_project" THEN {".", "/work/builds/proj"}
    ELSE {"/work/proj", "/work/builds/proj"}

\* str(root / rel)
JoinRoot(root, rel) == IF root = "." THEN rel ELSE root \o "/" \o rel

\* the files a project directory may hold, relative to the root
BaseFiles == {"Makefile", "README.md", "config.yaml", "src/main.py", ".git/HEAD",
              "tests/test_foo.py"}

\* a project directory of ten source files: two in the root, then one in each
\* directory of a chain of nested packages
TenFiles == {"f0.py", "f1.py",
             "pkg/f2.py",
             "pkg/pkg/f3.py",
             "pkg/pkg/pkg/f4.py",
             "pkg/pkg/pkg/pkg/f5.py",
             "pkg/pkg/pkg/pkg/pkg/f6.py",
             "pkg/pkg/pkg/pkg/pkg/pkg/f7.py",
             "pkg/pkg/pkg/pkg/pkg/pkg/pkg/f8.py",
             "pkg/pkg/pkg/pkg/pkg/pkg/pkg/pkg/f9.py"}

\* the project directory of five files: source, readme, configuration, test, VCS metadata
ExampleFiles == BaseFiles \ {"Makefile"}

\* the sequences that hold every element of S once
RECURSIVE Perms(_)
Perms(S) ==
    IF S = {} THEN {<< >>}
    ELSE UNION {{<<x>> \o rest : rest \in Perms(S \ {x})} : x \in S}

\* glob("**/*") yields the entries of a directory, then what it yields for each of
\* its sub-directories, one sub-directory after the other; the order of the entries of
\* one directory and the order of its sub-directories is that of os.scandir, which
\* depends on the filesystem.
\* GlobUnder(S, n): the orders for the files S of the directory their first n segments
\* name; GlobDirs(S, n, ds): the orders for the files S below its sub-directories ds,
\* taken in the order ds
RECURSIVE GlobUnder(_, _), GlobDirs(_, _, _)
GlobUnder(S, n) ==
    LET here == {f \in S : Len(Parts(f)) = n + 1}
        below == S \ here
        dirs == {Parts(f)[n + 1] : f \in below}
    IN  {a \o b : a \in Perms(here),
                  b \in UNION {GlobDirs(below, n, ds) : ds \in Perms(dirs)}}

GlobDirs(S, n, ds) ==
    IF ds = << >> THEN {<< >>}
    ELSE {a \o b : a \in GlobUnder({f \in S : Parts(f)[n + 1] = Head(ds)}, n + 1),
                   b \in GlobDirs(S, n, Tail(ds))}

\* every order in which the walk can yield the files S
GlobOrders(S) == GlobUnder(S, 0)

\* every order in which the walk can yield the ten files
TenListings == GlobOrders(TenFiles)

\* the directory contents tried, in every order the walk can yield them: up to
\* MaxFiles of the base files, the five files, or the ten files
RelListings ==
    UNION {GlobOrders(S) : S \in {T \in SUBSET BaseFiles : Cardinality(T) <= MaxFiles}}
        \cup GlobOrders(ExampleFiles) \cup TenListings

\* what project_dir.glob(pattern) yields for the directory contents rel
Glob(root, rel) == [k \in 1..Len(rel) |-> JoinRoot(root, rel[k])]

RunSpecs == {{}, {"code", "docs"}, {"all"}}

\* the batch sizes tried; a run draws one of at most one more than the files of its
\* directory (every larger size makes the same single batch)
BatchSizes == (0 - 1)..MaxBatchSize

Outcomes == {"ok", "fail", "raised"}

\* every file a listing may hold
RunFiles ==
    {JoinRoot(root, rel) :
        root \in RootsOf("index_project") \cup RootsOf("process_project"),
        rel \in BaseFiles \cup TenFiles}

\* the classifier and the filter on the files of the listings, tabulated
\* (the files of a listing are regular files below the size limit)
FileTypeOf == [m \in Impls |-> [p \in RunFiles |-> Classify(m, p)]]

LanguageOf == [m \in Impls |-> [p \in RunFiles |-> Language(m, p)]]

Kept == [m \in Impls |-> [patterns \in SUBSET Patterns |-> [p \in RunFiles |->
            ShouldInclude(m, p, TRUE, 0, patterns)]]]

\* DocumentMetadata: the fields the statistics use
Metadata(p) == [file_path |-> p, file_type |-> FileTypeOf["index_project"][p]]

\* the walker: the files of the listing the inclusion filter keeps, in glob order;
\* index_project appends (path, metadata), process_project the path
Worklist(m, files, patterns) ==
    LET Keep(p) == Kept[m][patterns][p]
        paths == SelectSeq(files, Keep)
    IN  IF m = "index_project" THEN [k \in 1..Len(paths) |-> Metadata(paths[k])]
        ELSE paths

\* stats = {'total_files': len(files_to_process), 'successful': 0, 'failed': 0, 'by_type': {}}
NewStats(n) ==
    [total_files |-> n, successful |-> 0, failed |-> 0,
     by_type |-> [t \in DocumentType |-> 0]]

\* variant: the slice starts one item early (files_to_process[max(i - 1, 0):i + batch_size])
BatchAt_Overlap(n, start, size) == (IF start > 0 THEN start ELSE 1)..Min(start + size, n)

\* variant: the slice is one item too long
BatchAt_LongSlice(n, start, size) == (start + 1)..Min(start + size + 1, n)

\* files_to_process[i:i + batch_size], as worklist positions (1-based)
BatchAt(n, start, size) == (start + 1)..Min(start + size, n)

\* variant: the wait returns as soon as one task has settled
GatherDone_FirstCompleted(tasks, b) == \E k \in b : tasks[k] \in Outcomes

\* asyncio.gather(*tasks, return_exceptions=True) returns once every task has settled
GatherDone(tasks, b) == \A k \in b : tasks[k] \in Outcomes

\* variant: an exception result is logged but not counted
TallyOne_DropsRaised(st, file_type, result) ==
    IF result = "raised" THEN st
    ELSE IF result = "ok"
         THEN [st EXCEPT !.successful = @ + 1, !.by_type[file_type] = @ + 1]
    ELSE [st EXCEPT !.failed = @ + 1]

\* index_project: one iteration of "for (file_path, metadata), result in zip(batch, results)"
TallyOne(st, file_type, result) ==
    IF result = "raised" THEN [st EXCEPT !.failed = @ + 1]
    ELSE IF result = "ok"
         THEN [st EXCEPT !.successful = @ + 1, !.by_type[file_type] = @ + 1]
    ELSE [st EXCEPT !.failed = @ + 1]

\* index_project: the whole zip(batch, results) loop over positions k..last
RECURSIVE TallyBatch(_, _, _, _, _)

\* variant: the first exception result ends the loop over the batch
TallyBatch_Abort(st, files, tasks, k, last) ==
    IF k > last \/ tasks[k] = "raised" THEN st
    ELSE TallyBatch(TallyOne(st, files[k].file_type, tasks[k]),
                    files, tasks, k + 1, last)

TallyBatch(st, files, tasks, k, last) ==
    IF k > last THEN st
    ELSE TallyBatch(TallyOne(st, files[k].file_type, tasks[k]),
                    files, tasks, k + 1, last)

\* DocumentProcessor._upload_document: True on status 200; another status and every
\* exception raised inside the try block give False
UploadReturn(outcome) == IF outcome = "ok" THEN "ok" ELSE "fail"

\* variant: the else branch of "if success" is missing
ProcTallyOne_NoElse(st, dtype, result) ==
    IF result = "raised" THEN [st EXCEPT !.failed = @ + 1]
    ELSE IF result = "ok"
         THEN [st EXCEPT !.successful = @ + 1, !.by_type[dtype] = @ + 1]
    ELSE [st EXCEPT !.by_type[dtype] = @ + 1]

\* variant: by_type is updated in the "if success" branch only
ProcTallyOne_SucceededOnly(st, dtype, result) ==
    IF result = "raised" THEN [st EXCEPT !.failed = @ + 1]
    ELSE IF result = "ok"
         THEN [st EXCEPT !.successful = @ + 1, !.by_type[dtype] = @ + 1]
    ELSE [st EXCEPT !.failed = @ + 1]

\* variant: the else branch of "if success" counts the item as successful
ProcTallyOne_FailedAsSuccess(st, dtype, result) ==
    IF result = "raised" THEN [st EXCEPT !.failed = @ + 1]
    ELSE [st EXCEPT !.successful = @ + 1, !.by_type[dtype] = @ + 1]

\* process_project: the statistics update after "success = await self._upload_document(...)"
ProcTallyOne(st, dtype, result) ==
    IF result = "raised" THEN [st EXCEPT !.failed = @ + 1]
    ELSE IF result = "ok"
         THEN [st EXCEPT !.successful = @ + 1, !.by_type[dtype] = @ + 1]
    ELSE [st EXCEPT !.failed = @ + 1, !.by_type[dtype] = @ + 1]

FilterIdle ==
    /\ fpc = "idle"
    /\ file_path = ""
    /\ st_size = 0
    /\ stat_ok = TRUE
    /\ doc_type = "other"
    /\ language = "none"
    /\ included = FALSE

InitRun ==
    /\ impl \in Impls
    /\ include_patterns \in RunSpecs
    /\ project_path \in RootsOf(impl)
    /\ root_exists \in BOOLEAN
    /\ \E rel \in RelListings :
          /\ ~root_exists => rel = << >>
          /\ rel \in TenListings => impl = "index_project"
          /\ listing = Glob(project_path, rel)
    /\ batch_size \in {b \in BatchSizes : b <= Len(listing) + 1}
    /\ Len(listing) = Cardinality(TenFiles) => batch_size <= MaxTenBatch
    /\ impl = "process_project" => batch_size = 1
    /\ pc = "start"
    /\ files_to_process = << >>
    /\ stats = NewStats(0)
    /\ i = 0
    /\ batch = {}
    /\ task = << >>
    /\ batches = << >>
    /\ uploads = [ok |-> 0, fail |-> 0, raised |-> 0, nostat |-> 0]
    /\ attempts = << >>
    /\ gone = {}
    /\ missed = {}
    /\ FilterIdle
    /\ CliIdle
    /\ HttpIdle
    /\ SearchIdle
    /\ MgrIdle

\* index_project / process_project on a root path that does not exist
RootMissing ==
    /\ pc = "start"
    /\ ~root_exists
    /\ pc' = "error"
    /\ UNCHANGED <<searchVars, mgrVars, gone, missed, attempts, cliVars, httpVars, impl, include_patterns, filterVars, project_path, root_exists, listing,
                   batch_size,
                   files_to_process, stats, i, batch, task, batches, uploads>>

\* index_project / process_project: enumerate, filter, initialise the statistics
Walk ==
    /\ pc = "start"
    /\ root_exists
    /\ LET work == Worklist(impl, listing, include_patterns)
       IN  /\ files_to_process' = work
           /\ stats' = NewStats(Len(work))
           /\ task' = [k \in 1..Len(work) |-> "idle"]
           /\ attempts' = [k \in 1..Len(work) |-> 0]
           /\ pc' = IF impl = "process_project" /\ Len(work) = 0 THEN "done" ELSE "loop"
    /\ i' = 0
    /\ UNCHANGED <<searchVars, mgrVars, gone, missed, cliVars, httpVars, impl, include_patterns, filterVars, project_path, root_exists, listing,
                   batch_size,
                   batch, batches, uploads>>

\* index_project: range(0, len(files_to_process), 0) raises ValueError
IndexRangeError ==
    /\ impl = "index_project"
    /\ pc = "loop"
    /\ batch_size = 0
    /\ pc' = "error"
    /\ UNCHANGED <<searchVars, mgrVars, gone, missed, attempts, cliVars, httpVars, impl, include_patterns, filterVars, project_path, root_exists, listing,
                   batch_size,
                   files_to_process, stats, i, batch, task, batches, uploads>>

\* index_project: take the next batch, create one upload coroutine per item of the
\* batch and hand them to asyncio.gather
IndexBatch ==
    /\ impl = "index_project"
    /\ pc = "loop"
    /\ batch_size > 0
    /\ i < Len(files_to_process)
    /\ batch' = BatchAt(Len(files_to_process), i, batch_size)
    /\ batches' = Append(batches, batch')
    /\ task' = [k \in DOMAIN task |-> IF k \in batch' THEN "idle" ELSE task[k]]
    /\ pc' = "gather"
    /\ UNCHANGED <<searchVars, mgrVars, gone, missed, attempts, cliVars, httpVars, impl, include_patterns, filterVars, project_path, root_exists, listing,
                   batch_size,
                   files_to_process, stats, i, uploads>>

\* the event loop starts the next upload task of the batch (tasks start in creation
\* order): _upload_document opens the file and sends the request; open() of a deleted
\* file raises inside the try block and the coroutine returns False at once
TaskStart ==
    /\ impl = "index_project"
    /\ pc = "gather"
    /\ \E k \in batch :
          /\ task[k] = "idle"
          /\ \A j \in batch : j < k => task[j] # "idle"
          /\ attempts' = [attempts EXCEPT ![k] = @ + 1]
          /\ IF k \in gone
             THEN /\ task' = [task EXCEPT ![k] = "fail"]
                  /\ uploads' = [uploads EXCEPT !.fail = @ + 1]
                  /\ missed' = missed \cup {k}
             ELSE /\ task' = [task EXCEPT ![k] = "running"]
                  /\ UNCHANGED <<uploads, missed>>
    /\ UNCHANGED <<searchVars, mgrVars, gone, cliVars, httpVars, impl, include_patterns, filterVars, project_path, root_exists, listing,
                   batch_size,
                   files_to_process, stats, i, batch, batches, pc>>

\* one running upload settles: returns True, returns False, or raises
TaskSettle ==
    /\ impl = "index_project"
    /\ pc = "gather"
    /\ \E k \in batch, outcome \in Outcomes :
          /\ task[k] = "running"
          /\ task' = [task EXCEPT ![k] = outcome]
          /\ uploads' = [uploads EXCEPT ![outcome] = @ + 1]
    /\ UNCHANGED <<searchVars, mgrVars, gone, missed, attempts, cliVars, httpVars, impl, include_patterns, filterVars, project_path, root_exists, listing,
                   batch_size,
                   files_to_process, stats, i, batch, batches, pc>>

\* index_project: gather returned; count the results of the batch, go to the next batch
IndexTally ==
    /\ impl = "index_project"
    /\ pc = "gather"
    /\ GatherDone(task, batch)
    /\ stats' = TallyBatch(stats, files_to_process, task, i + 1, i + Cardinality(batch))
    /\ task' = [k \in DOMAIN task |->
                  IF k \in batch /\ task[k] \in Outcomes THEN "counted" ELSE task[k]]
    /\ i' = i + batch_size
    /\ batch' = {}
    /\ pc' = "loop"
    /\ UNCHANGED <<searchVars, mgrVars, gone, missed, attempts, cliVars, httpVars, impl, include_patterns, filterVars, project_path, root_exists, listing,
                   batch_size,
                   files_to_process, batches, uploads>>

\* index_project: the range is exhausted (or empty, for a negative step); return stats
IndexFinish ==
    /\ impl = "index_project"
    /\ pc = "loop"
    /\ batch_size < 0 \/ (batch_size > 0 /\ i >= Len(files_to_process))
    /\ pc' = "done"
    /\ UNCHANGED <<searchVars, mgrVars, gone, missed, attempts, cliVars, httpVars, impl, include_patterns, filterVars, project_path, root_exists, listing,
                   batch_size,
                   files_to_process, stats, i, batch, task, batches, uploads>>

\* process_project: next file, classified; file_path.stat() raises (except branch) ...
ProcessStatFails ==
    /\ impl = "process_project"
    /\ pc = "loop"
    /\ i < Len(files_to_process)
    /\ doc_type' = FileTypeOf[impl][files_to_process[i + 1]]
    /\ language' = LanguageOf[impl][files_to_process[i + 1]]
    /\ stats' = [stats EXCEPT !.failed = @ + 1]
    /\ task' = [task EXCEPT ![i + 1] = "counted"]
    /\ uploads' = [uploads EXCEPT !.nostat = @ + 1]
    /\ missed' = IF i + 1 \in gone THEN missed \cup {i + 1} ELSE missed
    /\ i' = i + 1
    /\ UNCHANGED <<searchVars, mgrVars, gone, attempts, cliVars, httpVars, impl, include_patterns, fpc, file_path, st_size, stat_ok, included,
                   project_path, root_exists, listing, batch_size, files_to_process, batch, batches, pc>>

\* ... or stat() returns, the metadata is built and _upload_document is called
ProcessUpload ==
    /\ impl = "process_project"
    /\ pc = "loop"
    /\ i < Len(files_to_process)
    /\ i + 1 \notin gone
    /\ doc_type' = FileTypeOf[impl][files_to_process[i + 1]]
    /\ language' = LanguageOf[impl][files_to_process[i + 1]]
    /\ batch' = {i + 1}
    /\ pc' = "open"
    /\ UNCHANGED <<searchVars, mgrVars, gone, missed, attempts, cliVars, httpVars, impl, include_patterns, fpc, file_path, st_size, stat_ok, included,
                   project_path, root_exists, listing, batch_size, files_to_process, stats, i, batches,
                   task, uploads>>

\* _upload_document: open() and read() of the file, then the request is sent; open()
\* of a file deleted since stat() raises inside the try block, _upload_document
\* returns False and the loop counts the item failed
ProcessOpen ==
    /\ impl = "process_project"
    /\ pc = "open"
    /\ attempts' = [attempts EXCEPT ![i + 1] = @ + 1]
    /\ IF i + 1 \in gone
       THEN /\ uploads' = [uploads EXCEPT !.raised = @ + 1]
            /\ stats' = ProcTallyOne(stats, doc_type, UploadReturn("raised"))
            /\ missed' = missed \cup {i + 1}
            /\ task' = [task EXCEPT ![i + 1] = "counted"]
            /\ batch' = {}
            /\ i' = i + 1
            /\ pc' = "loop"
       ELSE /\ task' = [task EXCEPT ![i + 1] = "running"]
            /\ pc' = "item"
            /\ UNCHANGED <<uploads, stats, missed, batch, i>>
    /\ UNCHANGED <<searchVars, mgrVars, gone, cliVars, httpVars, impl, include_patterns, filterVars, project_path, root_exists, listing,
                   batch_size,
                   files_to_process, batches>>

\* process_project: the request ends (status 200, another status, or an exception in
\* session.post()), _upload_document returns, and the statistics are updated; the
\* file was read before the request, so a deletion during the request changes nothing
ProcessSettle ==
    /\ impl = "process_project"
    /\ pc = "item"
    /\ \E outcome \in Outcomes :
          /\ uploads' = [uploads EXCEPT ![outcome] = @ + 1]
          /\ stats' = ProcTallyOne(stats, doc_type, UploadReturn(outcome))
    /\ task' = [task EXCEPT ![i + 1] = "counted"]
    /\ batch' = {}
    /\ i' = i + 1
    /\ pc' = "loop"
    /\ UNCHANGED <<searchVars, mgrVars, gone, missed, attempts, cliVars, httpVars, impl, include_patterns, filterVars, project_path, root_exists, listing,
                   batch_size,
                   files_to_process, batches>>

\* process_project: the loop is over; return stats
ProcessFinish ==
    /\ impl = "process_project"
    /\ pc = "loop"
    /\ i >= Len(files_to_process)
    /\ pc' = "done"
    /\ UNCHANGED <<searchVars, mgrVars, gone, missed, attempts, cliVars, httpVars, impl, include_patterns, filterVars, project_path, root_exists, listing,
                   batch_size,
                   files_to_process, stats, i, batch, task, batches, uploads>>

\* another process deletes a file of the worklist whose upload has not ended
\* (explored on the generated project directories, at most MaxDeleted files a run)
DeleteFile ==
    /\ pc \in {"loop", "gather", "open", "item"}
    /\ Len(files_to_process) <= MaxFiles
    /\ Cardinality(gone) < MaxDeleted
    /\ \E k \in DOMAIN files_to_process :
          /\ k \notin gone
          /\ task[k] \in {"idle", "running"}
          /\ gone' = gone \cup {k}
    /\ UNCHANGED <<searchVars, mgrVars, impl, include_patterns, filterVars, cliVars, httpVars, pc, project_path,
                   root_exists, listing, batch_size, files_to_process, stats, i, batch, task,
                   batches, uploads, attempts, missed>>

Next ==
    \/ RootMissing
    \/ Walk
    \/ IndexRangeError
    \/ IndexBatch
    \/ TaskStart
    \/ TaskSettle
    \/ IndexTally
    \/ IndexFinish
    \/ ProcessStatFails
    \/ ProcessUpload
    \/ ProcessOpen
    \/ ProcessSettle
    \/ ProcessFinish
    \/ DeleteFile

Spec == InitRun /\ [][Next]_vars

FairSpec == Spec /\ WF_vars(Next)

(***************************************************************************)
(* The functions that interpret an HTTP response.                          *)
(***************************************************************************)
\* the status codes a server answers with
Statuses == {200, 201, 202, 204, 299, 301, 404, 500, 503}

\* the ways a request ends without a response: aiohttp raises
Failures == {"timeout", "refused"}

Responses ==
    {[kind |-> "status", status |-> n] : n \in Statuses}
        \cup {[kind |-> k, status |-> 0] : k \in Failures}


\* RAGClient.health_check: response.status == 200; except Exception: False
health_check(resp) ==
    IF resp.kind = "status" THEN resp.status = 200 ELSE FALSE

\* SuperClaudeDocumentProcessor.health_check
sc_health_check(resp) ==
    IF resp.kind = "status" THEN resp.status = 200 ELSE FALSE

\* variant: a request that raises counts as healthy
_check_rag_api_health_FailOpen(resp) ==
    IF resp.kind = "status" THEN resp.status = 200 ELSE TRUE

\* RAGServerManager._check_rag_api_health
_check_rag_api_health(resp) ==
    IF resp.kind = "status" THEN resp.status = 200 ELSE FALSE

\* DocumentProcessor._upload_document: True for status 200, False for any other
\* status, False when the request raises
_upload_document(resp) ==
    IF resp.kind = "status" THEN (IF resp.status = 200 THEN TRUE ELSE FALSE) ELSE FALSE

\* SuperClaudeDocumentProcessor._upload_document
sc_upload_document(resp) ==
    IF resp.kind = "status" THEN (IF resp.status = 200 THEN TRUE ELSE FALSE) ELSE FALSE

HealthChecks == {"RAGClient.health_check", "SuperClaudeDocumentProcessor.health_check",
                 "RAGServerManager._check_rag_api_health"}

Uploaders == {"DocumentProcessor._upload_document",
              "SuperClaudeDocumentProcessor._upload_document"}

\* what the function f returns for the response resp
Interpret(f, resp) ==
    CASE f = "RAGClient.health_check" -> health_check(resp)
      [] f = "SuperClaudeDocumentProcessor.health_check" -> sc_health_check(resp)
      [] f = "RAGServerManager._check_rag_api_health" -> _check_rag_api_health(resp)
      [] f = "DocumentProcessor._upload_document" -> _upload_document(resp)
      [] f = "SuperClaudeDocumentProcessor._upload_document" -> sc_upload_document(resp)

\* the variables of a run and of a filter call while another part is examined
RunUnused == RunIdle /\ FilterIdle /\ impl = "process_project" /\ include_patterns = {}

InitHttp ==
    /\ RunUnused
    /\ CliIdle
    /\ HttpIdle
    /\ SearchIdle
    /\ MgrIdle

\* one of the functions is called and sends its request
HttpCall ==
    /\ hpc = "idle"
    /\ \E f \in HealthChecks \cup Uploaders : caller' = f
    /\ hpc' = "called"
    /\ UNCHANGED <<searchVars, mgrVars, impl, include_patterns, filterVars, runVars, cliVars, returned>>

\* the request ends: a status code arrives, or aiohttp raises
HttpRespond ==
    /\ hpc = "called"
    /\ \E resp \in Responses : response' = resp
    /\ hpc' = "responded"
    /\ UNCHANGED <<searchVars, mgrVars, impl, include_patterns, filterVars, runVars, command, cpc, requests,
                   healthy, results, printable, report, exit_code, caller, returned>>

\* the function returns
HttpReturn ==
    /\ hpc = "responded"
    /\ returned' = Interpret(caller, response)
    /\ hpc' = "returned"
    /\ UNCHANGED <<searchVars, mgrVars, impl, include_patterns, filterVars, runVars, cliVars, caller>>

NextHttp == HttpCall \/ HttpRespond \/ HttpReturn

SpecHttp == InitHttp /\ [][NextHttp]_vars

(***************************************************************************)
(* The index and search commands: cli.py (RAGClient, process_project) and  *)
(* the index command of document_processor.py (index_project).             *)
(***************************************************************************)
\* the inclusion specs the command lines can produce. cli.py: --include-code and
\* --include-docs are always set, --include-configs and --include-tests are optional,
\* --include-all sets all four. document_processor.py: --include with one or more of
\* the five choices.
CliSpecs(m) ==
    IF m = "process_project"
    THEN {{"code", "docs"} \cup S : S \in SUBSET {"configs", "tests"}} \cup {{"all"}}
    ELSE (SUBSET Patterns) \ {{}}

\* the directory contents tried under a command
CliListings == RelListings \ TenListings

\* index_project's default batch_size
DefaultBatchSize == 10

\* the numbers of results a search request may be answered with
ResultCounts == 0..2

\* variant: the command goes on whatever the health check returned
CmdGate_Ignored(ok) == "proceed"

\* cmd_index / cmd_search: if not await client.health_check(): ... return False
CmdGate(ok) == IF ok THEN "proceed" ELSE "refuse"

\* RAGClient.search: the response body for status 200, [] for any other status, [] on an exception
search(resp, n) == IF resp.kind = "status" /\ resp.status = 200 THEN n ELSE 0

\* cmd_search after client.search returned: the message printed last
cmd_search_report(n, ok) ==
    IF n = 0 THEN "no_results" ELSE IF ok THEN "found" ELSE "unexpected_error"

\* cmd_index after client.index_project returned: the message printed
cmd_index_report(err, st) ==
    IF err THEN "indexing_failed"
    ELSE IF st.successful > 0 THEN "indexed"
    ELSE IF st.total_files = 0 THEN "no_files"
    ELSE "failed_to_index"

\* cmd_index after client.index_project returned: the value returned
cmd_index_result(err, st) == IF err THEN FALSE ELSE st.successful > 0

\* variant: every command ends with exit code 0
ExitCode_Zero(success) == 0

\* main: return 0 if success else 1
ExitCode(success) == IF success THEN 0 ELSE 1

InitCli ==
    /\ impl \in Impls
    /\ command \in (IF impl = "process_project" THEN {"index", "search"} ELSE {"index"})
    /\ include_patterns \in CliSpecs(impl)
    /\ project_path \in RootsOf(impl)
    /\ root_exists \in BOOLEAN
    /\ \E rel \in CliListings :
          /\ (~root_exists \/ command = "search") => rel = << >>
          /\ listing = Glob(project_path, rel)
    /\ command = "search" =>
          root_exists /\ include_patterns = {"code", "docs"} /\ project_path = "/work/proj"
    /\ batch_size = IF impl = "index_project" THEN DefaultBatchSize ELSE 1
    /\ pc = "wait"
    /\ files_to_process = << >>
    /\ stats = NewStats(0)
    /\ i = 0
    /\ batch = {}
    /\ task = << >>
    /\ batches = << >>
    /\ uploads = [ok |-> 0, fail |-> 0, raised |-> 0, nostat |-> 0]
    /\ attempts = << >>
    /\ gone = {}
    /\ missed = {}
    /\ FilterIdle
    /\ cpc = "start"
    /\ requests = << >>
    /\ response = NoResponse
    /\ healthy = FALSE
    /\ results = 0
    /\ printable = TRUE
    /\ report = "none"
    /\ exit_code = 0 - 1
    /\ HttpIdle
    /\ SearchIdle
    /\ MgrIdle

\* cmd_index / cmd_search: await client.health_check()
CmdHealthCheck ==
    /\ impl = "process_project"
    /\ cpc = "start"
    /\ \E resp \in Responses :
          /\ response' = resp
          /\ healthy' = health_check(resp)
    /\ requests' = Append(requests, "health")
    /\ cpc' = "checked"
    /\ UNCHANGED <<searchVars, mgrVars, impl, include_patterns, filterVars, runVars, httpVars,
                   command, results, printable, report, exit_code>>

\* cmd_index / cmd_search: the server is not accessible; return False
CmdRefuse ==
    /\ cpc = "checked"
    /\ CmdGate(healthy) = "refuse"
    /\ report' = "not_accessible"
    /\ exit_code' = ExitCode(FALSE)
    /\ cpc' = "exit"
    /\ UNCHANGED <<searchVars, mgrVars, impl, include_patterns, filterVars, runVars, httpVars,
                   command, requests, response, healthy, results, printable>>

\* cmd_index: stats = await client.index_project(...)
CmdIndexStart ==
    /\ command = "index"
    /\ cpc = "checked"
    /\ CmdGate(healthy) = "proceed"
    /\ pc' = "start"
    /\ cpc' = "run"
    /\ UNCHANGED <<searchVars, mgrVars, impl, include_patterns, filterVars, httpVars, project_path, root_exists,
                   listing, batch_size, files_to_process, stats, i, batch, task, batches,
                   uploads, attempts, gone, missed, command, requests, response, healthy, results, printable, report, exit_code>>

\* cmd_index: client.index_project returned; print the outcome, return successful > 0
CmdIndexReport ==
    /\ impl = "process_project"
    /\ cpc = "run"
    /\ pc \in {"done", "error"}
    /\ report' = cmd_index_report(pc = "error", stats)
    /\ exit_code' = ExitCode(cmd_index_result(pc = "error", stats))
    /\ cpc' = "exit"
    /\ UNCHANGED <<searchVars, mgrVars, impl, include_patterns, filterVars, runVars, httpVars,
                   command, requests, response, healthy, results, printable>>

\* cmd_search: results = await client.search(...)
CmdSearch ==
    /\ command = "search"
    /\ cpc = "checked"
    /\ CmdGate(healthy) = "proceed"
    /\ \E resp \in Responses, n \in ResultCounts, shape \in BOOLEAN :
          /\ response' = resp
          /\ results' = search(resp, n)
          /\ printable' = IF search(resp, n) = 0 THEN TRUE ELSE shape
    /\ requests' = Append(requests, "search")
    /\ cpc' = "searched"
    /\ UNCHANGED <<searchVars, mgrVars, impl, include_patterns, filterVars, runVars, httpVars,
                   command, healthy, report, exit_code>>

\* cmd_search: if not results: "No results found", return False; else print them and
\* return True; a result the print loop cannot handle (a score that is not a number, a
\* null page_content or metadata) raises, and main's "except Exception" prints
\* "Unexpected error" and returns 1
CmdSearchReport ==
    /\ cpc = "searched"
    /\ report' = cmd_search_report(results, printable)
    /\ exit_code' = IF cmd_search_report(results, printable) = "unexpected_error" THEN 1
                    ELSE ExitCode(results # 0)
    /\ cpc' = "exit"
    /\ UNCHANGED <<searchVars, mgrVars, impl, include_patterns, filterVars, runVars, httpVars,
                   command, requests, response, healthy, results, printable>>

\* document_processor.py main, command "index": stats = await processor.index_project(...)
ScMainIndex ==
    /\ impl = "index_project"
    /\ cpc = "start"
    /\ pc' = "start"
    /\ cpc' = "run"
    /\ UNCHANGED <<searchVars, mgrVars, impl, include_patterns, filterVars, httpVars, project_path, root_exists,
                   listing, batch_size, files_to_process, stats, i, batch, task, batches,
                   uploads, attempts, gone, missed, command, requests, response, healthy, results, printable, report, exit_code>>

\* document_processor.py main: the statistics are printed and the process ends
\* with 0, or the ValueError of index_project ends it with a traceback and 1
ScMainExit ==
    /\ impl = "index_project"
    /\ cpc = "run"
    /\ pc \in {"done", "error"}
    /\ report' = IF pc = "error" THEN "traceback" ELSE "results_printed"
    /\ exit_code' = IF pc = "error" THEN 1 ELSE 0
    /\ cpc' = "exit"
    /\ UNCHANGED <<searchVars, mgrVars, impl, include_patterns, filterVars, runVars, httpVars,
                   command, requests, response, healthy, results, printable>>

NextCli ==
    \/ CmdHealthCheck
    \/ CmdRefuse
    \/ CmdIndexStart
    \/ CmdIndexReport
    \/ CmdSearch
    \/ CmdSearchReport
    \/ ScMainIndex
    \/ ScMainExit
    \/ RootMissing
    \/ Walk
    \/ IndexBatch
    \/ TaskStart
    \/ TaskSettle
    \/ IndexTally
    \/ IndexFinish
    \/ ProcessStatFails
    \/ ProcessUpload
    \/ ProcessOpen
    \/ ProcessSettle
    \/ ProcessFinish

SpecCli == InitCli /\ [][NextCli]_vars

(***************************************************************************)
(* One call of a client's search: RAGClient.search (client.py) and         *)
(* SuperClaudeRAGClient.search (rag_client.py).                            *)
(***************************************************************************)
Clients == {"RAGClient", "SuperClaudeRAGClient"}

\* SearchMode values
SearchModes == {"semantic", "hybrid", "keyword"}

Queries == {"auth", "error handling"}
Limits == {1, 5}
FileTypeArgs == {<< >>, <<"code">>}

\* the lists of file ids GET /ids may answer with
IdLists == {<< >>, <<"id1", "id2">>}

\* the replies tried for a search request
SearchReplies ==
    {[kind |-> "status", status |-> n] : n \in {200, 404, 500}}
        \cup {[kind |-> "refused", status |-> 0]}

\* a request: method, path and JSON body ("-" / << >> for a field the body lacks)
Request(method, path, query, limit, mode, file_types, file_ids) ==
    [method |-> method, path |-> path, query |-> query, limit |-> limit, mode |-> mode,
     file_types |-> file_types, file_ids |-> file_ids]

\* RAGClient.search: session.post(f"{api_url}/search", json=search_data) with
\* search_data = {query, project_id, limit, mode: mode.value} plus file_types when given
search_data(query, limit, mode, file_types) ==
    Request("POST", "/search", query, limit, mode, file_types, << >>)

\* search_documents: session.get(f"{rag_api_url}/ids")
ids_request == Request("GET", "/ids", "-", 0, "-", << >>, << >>)

\* search_documents: session.post(f"{rag_api_url}/query_multiple", json=query_data) with
\* query_data = {query, file_ids, k: limit}
query_data(query, file_ids, limit) ==
    Request("POST", "/query_multiple", query, limit, "-", << >>, file_ids)

\* SuperClaudeRAGClient.search: the method the mode is handed to
sc_search_route(mode) == IF mode = "hybrid" THEN "_hybrid_search" ELSE "search_documents"

\* _hybrid_search returns await self.processor.search_documents(query, limit, filters):
\* both routes send the requests of search_documents
RouteRequest(route, query, file_ids, limit) ==
    IF route = "_hybrid_search" THEN query_data(query, file_ids, limit)
    ELSE query_data(query, file_ids, limit)

\* search_documents: response.json() for status 200, [] otherwise; no try block, so a
\* failed request raises (-2)
search_documents(resp, n) ==
    IF resp.kind # "status" THEN 0 - 2 ELSE IF resp.status = 200 THEN n ELSE 0

InitSearch ==
    /\ RunUnused
    /\ CliIdle
    /\ HttpIdle
    /\ MgrIdle
    /\ spc = "call"
    /\ sclient \in Clients
    /\ smode \in SearchModes
    /\ squery \in Queries
    /\ slimit \in Limits
    /\ sfile_types \in FileTypeArgs
    /\ sent = << >>
    /\ sresult = 0 - 1

\* RAGClient.search: one POST /search; the body for status 200, [] otherwise and on an
\* exception
SearchPost ==
    /\ spc = "call"
    /\ sclient = "RAGClient"
    /\ sent' = <<search_data(squery, slimit, smode, sfile_types)>>
    /\ \E resp \in SearchReplies, n \in ResultCounts :
          sresult' = search(resp, n)
    /\ spc' = "returned"
    /\ UNCHANGED <<impl, include_patterns, filterVars, runVars, cliVars, httpVars, mgrVars,
                   sclient, smode, squery, slimit, sfile_types>>

\* SuperClaudeRAGClient.search -> search_documents: GET /ids; return [] on a status
\* other than 200 or an empty id list, else POST /query_multiple
ScSearchIds ==
    /\ spc = "call"
    /\ sclient = "SuperClaudeRAGClient"
    /\ \E resp \in SearchReplies, file_ids \in IdLists :
          IF resp.kind # "status"
          THEN /\ sent' = <<ids_request>>
               /\ sresult' = 0 - 2
               /\ spc' = "returned"
          ELSE IF resp.status # 200 \/ file_ids = << >>
          THEN /\ sent' = <<ids_request>>
               /\ sresult' = 0
               /\ spc' = "returned"
          ELSE /\ sent' = <<ids_request,
                            RouteRequest(sc_search_route(smode), squery, file_ids, slimit)>>
               /\ sresult' = sresult
               /\ spc' = "query"
    /\ UNCHANGED <<impl, include_patterns, filterVars, runVars, cliVars, httpVars, mgrVars,
                   sclient, smode, squery, slimit, sfile_types>>

\* search_documents: the answer to POST /query_multiple
ScSearchQuery ==
    /\ spc = "query"
    /\ \E resp \in SearchReplies, n \in ResultCounts :
          sresult' = search_documents(resp, n)
    /\ spc' = "returned"
    /\ UNCHANGED <<impl, include_patterns, filterVars, runVars, cliVars, httpVars, mgrVars,
                   sclient, smode, squery, slimit, sfile_types, sent>>

NextSearch == SearchPost \/ ScSearchIds \/ ScSearchQuery

SpecSearch == InitSearch /\ [][NextSearch]_vars

(***************************************************************************)
(* One lifecycle operation of RAGServerManager (manager.py, rag_manager.py):*)
(* start_server, restart_server, update_services.                          *)
(***************************************************************************)
Managers == {"manager", "rag_manager"}

\* DeploymentType values
DeploymentType == {"local", "tei", "openai", "production"}

Operations == {"start_server", "restart_server", "update_services"}

\* return codes of a docker command (_run_command gives 1 on a timeout or an exception)
ReturnCodes == {0, 1}

\* start_server: max_retries = 30
max_retries == 30

\* what the services answer to one health check: the reply to GET {rag_api_url}/health,
\* whether the database probe succeeds, whether Ollama / TEI answer 200, whether the
\* OpenAI API key is set in the environment
Envs ==
    [api : {[kind |-> "status", status |-> 200], [kind |-> "status", status |-> 503],
            [kind |-> "refused", status |-> 0]},
     database : BOOLEAN, ollama : BOOLEAN, tei : BOOLEAN, api_key : BOOLEAN]

\* every service is up and the key is set
AllUp == [api |-> [kind |-> "status", status |-> 200], database |-> TRUE, ollama |-> TRUE,
          tei |-> TRUE, api_key |-> TRUE]

\* check_prerequisites: docker --version, docker compose version, the docker directory,
\* the compose file, in this order; False at the first that fails
check_prerequisites(docker_rc, compose_rc, dir_exists, file_exists) ==
    IF docker_rc # 0 THEN FALSE
    ELSE IF compose_rc # 0 THEN FALSE
    ELSE IF ~dir_exists THEN FALSE
    ELSE IF ~file_exists THEN FALSE
    ELSE TRUE

\* the commands check_prerequisites runs: the second only when the first succeeded
PrereqCommands(docker_rc, compose_rc) ==
    IF docker_rc # 0 THEN <<[cmd |-> "docker_version", rc |-> docker_rc]>>
    ELSE <<[cmd |-> "docker_version", rc |-> docker_rc],
           [cmd |-> "compose_version", rc |-> compose_rc]>>

\* _check_embeddings_health: Ollama for local, TEI for tei, the API key for openai,
\* False for every other deployment type
_check_embeddings_health(d, e) ==
    IF d = "local" THEN e.ollama
    ELSE IF d = "tei" THEN e.tei
    ELSE IF d = "openai" THEN e.api_key
    ELSE FALSE

\* get_status()["health"]
Health(d, e) ==
    [rag_api |-> _check_rag_api_health(e.api), database |-> e.database,
     embeddings |-> _check_embeddings_health(d, e)]

\* manager.py health_check: all(health.get(service) for service in ["rag_api", "database"])
manager_health_check(d, e) == Health(d, e).rag_api /\ Health(d, e).database

\* rag_manager.py health_check: all(status["health"].values())
rag_manager_health_check(d, e) ==
    Health(d, e).rag_api /\ Health(d, e).database /\ Health(d, e).embeddings

\* health_check of the manager m
HealthCheck(m, d, e) ==
    IF m = "manager" THEN manager_health_check(d, e) ELSE rag_manager_health_check(d, e)

\* stop_server: returncode == 0
stop_server(rc) == rc = 0

\* variant: the start sequence follows whatever stop_server returned
RestartGate_Ignored(stopped) == "start"

\* restart_server: if await self.stop_server(): ... return await self.start_server()
\* return False
RestartGate(stopped) == IF stopped THEN "start" ELSE "return_false"

\* variant: the readiness loop does not look at the health check
ReadyGate_IgnoresHealth(ok) == "sleep"

\* start_server, readiness loop: if await self.health_check(): return True
ReadyGate(ok) == IF ok THEN "return_true" ELSE "sleep"

InitMgr ==
    /\ RunUnused
    /\ CliIdle
    /\ HttpIdle
    /\ SearchIdle
    /\ mpc = "call"
    /\ mgr \in Managers
    /\ deployment \in DeploymentType
    /\ op \in Operations
    /\ commands = << >>
    /\ prereq = "none"
    /\ attempt = 0
    /\ polls = << >>
    /\ env = NoEnv
    /\ mresult = "none"

\* update_services: docker compose pull; return False when it fails, else restart_server
MgrPull ==
    /\ op = "update_services"
    /\ mpc = "call"
    /\ \E rc \in ReturnCodes :
          /\ commands' = Append(commands, [cmd |-> "pull", rc |-> rc])
          /\ IF rc # 0
             THEN mpc' = "returned" /\ mresult' = "false"
             ELSE mpc' = "restart" /\ mresult' = mresult
    /\ UNCHANGED <<impl, include_patterns, filterVars, runVars, cliVars, httpVars, searchVars,
                   mgr, deployment, op, prereq, attempt, polls, env>>

\* restart_server: stop_server (docker compose down), then the start sequence or False
MgrStop ==
    /\ \/ op = "restart_server" /\ mpc = "call"
       \/ mpc = "restart"
    /\ \E rc \in ReturnCodes :
          /\ commands' = Append(commands, [cmd |-> "down", rc |-> rc])
          /\ IF RestartGate(stop_server(rc)) = "start"
             THEN mpc' = "start" /\ mresult' = mresult
             ELSE mpc' = "returned" /\ mresult' = "false"
    /\ UNCHANGED <<impl, include_patterns, filterVars, runVars, cliVars, httpVars, searchVars,
                   mgr, deployment, op, prereq, attempt, polls, env>>

\* start_server: if not self.check_prerequisites(): return False
MgrPrereq ==
    /\ \/ op = "start_server" /\ mpc = "call"
       \/ mpc = "start"
    /\ \E docker_rc \in ReturnCodes, compose_rc \in ReturnCodes,
          dir_exists \in BOOLEAN, file_exists \in BOOLEAN :
          /\ commands' = commands \o PrereqCommands(docker_rc, compose_rc)
          /\ IF check_prerequisites(docker_rc, compose_rc, dir_exists, file_exists)
             THEN prereq' = "passed" /\ mpc' = "up" /\ mresult' = mresult
             ELSE prereq' = "failed" /\ mpc' = "returned" /\ mresult' = "false"
    /\ UNCHANGED <<impl, include_patterns, filterVars, runVars, cliVars, httpVars, searchVars,
                   mgr, deployment, op, attempt, polls, env>>

\* start_server: docker compose up -d; return False when it fails
MgrUp ==
    /\ mpc = "up"
    /\ \E rc \in ReturnCodes :
          /\ commands' = Append(commands, [cmd |-> "up", rc |-> rc])
          /\ IF rc # 0
             THEN mpc' = "returned" /\ mresult' = "false"
             ELSE mpc' = "poll" /\ mresult' = mresult
    /\ attempt' = 0
    /\ UNCHANGED <<impl, include_patterns, filterVars, runVars, cliVars, httpVars, searchVars,
                   mgr, deployment, op, prereq, polls, env>>

\* start_server: one iteration of "for attempt in range(max_retries)": health check,
\* return True, or sleep and go on
MgrPoll ==
    /\ mpc = "poll"
    /\ attempt < max_retries
    /\ \E e \in Envs :
          /\ env' = e
          /\ polls' = Append(polls, HealthCheck(mgr, deployment, e))
          /\ IF ReadyGate(HealthCheck(mgr, deployment, e)) = "return_true"
             THEN mpc' = "returned" /\ mresult' = "true" /\ attempt' = attempt
             ELSE mpc' = "poll" /\ mresult' = mresult /\ attempt' = attempt + 1
    /\ UNCHANGED <<impl, include_patterns, filterVars, runVars, cliVars, httpVars, searchVars,
                   mgr, deployment, op, commands, prereq>>

\* start_server: the range is exhausted; return False
MgrGiveUp ==
    /\ mpc = "poll"
    /\ attempt >= max_retries
    /\ mpc' = "returned"
    /\ mresult' = "false"
    /\ UNCHANGED <<impl, include_patterns, filterVars, runVars, cliVars, httpVars, searchVars,
                   mgr, deployment, op, commands, prereq, attempt, polls, env>>

NextMgr == MgrPull \/ MgrStop \/ MgrPrereq \/ MgrUp \/ MgrPoll \/ MgrGiveUp

SpecMgr == InitMgr /\ [][NextMgr]_vars

\* every command and every health check returns (subprocess timeout 300 s, probe
\* timeout 5 s), so an operation that can take a step takes it
FairSpecMgr == SpecMgr /\ WF_vars(NextMgr)

(***************************************************************************)
(* Properties of an indexing run (Spec).                                   *)
(***************************************************************************)
SumByType ==
    stats.by_type["code"] + stats.by_type["documentation"] +
    stats.by_type["configuration"] + stats.by_type["test"] + stats.by_type["other"]

\* the run returned its statistics; index_project was given batch_size >= 1
Completed == pc = "done" /\ (impl = "index_project" => batch_size >= 1)

Settled == Outcomes \cup {"counted"}

\* C1: when a run returns its statistics, successful + failed equals
\* total_files, whatever the worklist, the batch size (>= 1) and the outcome
\* of each upload (true, false, raised).
C1_StatsAddUp ==
    Completed => stats.successful + stats.failed = stats.total_files

C1_Witness ==
    /\ Completed
    /\ impl = "index_project"
    /\ stats.total_files >= 3
    /\ batch_size = stats.total_files + 1
    /\ uploads.ok >= 1 /\ uploads.fail >= 1 /\ uploads.raised >= 1

\* C2: in index_project no upload of a later batch has started while an
\* upload of an earlier batch has not settled.
C2_BatchesSequential ==
    impl = "index_project" =>
        \A b, c \in 1..Len(batches) :
            b < c =>
                \A j \in batches[b], k \in batches[c] :
                    task[k] # "idle" => task[j] \in Settled

C2_Witness ==
    /\ impl = "index_project"
    /\ Len(batches) = 2
    /\ Cardinality(batches[1]) >= 2
    /\ \E k \in batches[2] : task[k] = "running"
    /\ \A j \in batches[1] : task[j] = "counted"

\* C3: index_project issues exactly ceil(n / batch_size) batches, batch b
\* holding the worklist positions (b-1)*batch_size+1 .. min(b*batch_size, n):
\* consecutive, in order, all of size batch_size but a possibly smaller last
\* one; 10 items with batch_size 3 give batches of sizes 3, 3, 3, 1.
C3_Partition ==
    (impl = "index_project" /\ batch_size >= 1) =>
        LET n == Len(files_to_process)
        IN  /\ \A b \in 1..Len(batches) :
                  /\ batches[b] = ((b - 1) * batch_size + 1)..Min(b * batch_size, n)
                  /\ Cardinality(batches[b]) >= 1
                  /\ b < Len(batches) => Cardinality(batches[b]) = batch_size
            /\ pc = "done" =>
                  /\ Len(batches) = (n + batch_size - 1) \div batch_size
                  /\ (n = 10 /\ batch_size = 3) =>
                        [b \in 1..Len(batches) |-> Cardinality(batches[b])] = <<3, 3, 3, 1>>

C3_Witness ==
    /\ Completed
    /\ impl = "index_project"
    /\ Len(files_to_process) = 10
    /\ batch_size = 3
    /\ Len(batches) = 4

\* C4: a failed or raising upload costs its own item only: when the run
\* returns, every worklist item has been handled and counted, failed is the
\* number of uploads that returned false or raised (plus, in process_project,
\* the items whose stat() raised), successful the number that returned true;
\* a run on an existing root with batch_size >= 1 never ends in an error and,
\* as long as every upload settles, always returns its statistics.
C4_Counts ==
    /\ (root_exists /\ (impl = "index_project" => batch_size >= 1)) => pc # "error"
    /\ Completed =>
          /\ \A k \in DOMAIN task : task[k] = "counted"
          /\ uploads.ok + uploads.fail + uploads.raised + uploads.nostat
                = Len(files_to_process)
          /\ stats.failed = uploads.fail + uploads.raised + uploads.nostat
          /\ stats.successful = uploads.ok

C4_FailureIsolated ==
    /\ []C4_Counts
    /\ (root_exists /\ (impl = "index_project" => batch_size >= 1)) ~> (pc = "done")

C4_Witness ==
    /\ Completed
    /\ impl = "index_project"
    /\ Len(batches) >= 2
    /\ uploads.raised >= 1 /\ uploads.fail >= 1 /\ uploads.ok >= 1
    /\ stats.failed = 2

\* C5 (as stated): at the end of index_project the by_type counts sum to the
\* number of uploads that returned true or false (failed uploads are counted
\* under their category). index_project adds to by_type only in its "elif result:"
\* branch, so a run with a failed upload ends with fewer.
C5_ByTypeCountsProcessed ==
    (Completed /\ impl = "index_project") => SumByType = uploads.ok + uploads.fail

\* C6: in every state of a run the by_type counts sum to at most
\* successful + failed.
C6_ByTypeWithinCounted == SumByType <= stats.successful + stats.failed

C6_Witness ==
    /\ impl = "process_project"
    /\ pc = "done"
    /\ stats.failed >= 1 /\ stats.successful >= 1
    /\ uploads.fail >= 1
    /\ SumByType = stats.successful + stats.failed

\* the walker has built the worklist
Walked == pc \in {"loop", "gather", "open", "item", "done"}

\* the paths of the worklist
WorklistPaths ==
    {IF impl = "index_project" THEN files_to_process[k].file_path ELSE files_to_process[k] :
        k \in 1..Len(files_to_process)}

\* C11 (as stated): for a root directory holding src/main.py, README.md,
\* config.yaml, tests/test_foo.py and .git/HEAD, a run with code and docs
\* selected builds the worklist {src/main.py, README.md}, in both pipelines.
C11_ExampleWorklist ==
    (Walked /\ listing \in {Glob(project_path, rel) : rel \in GlobOrders(ExampleFiles)}
            /\ include_patterns = {"code", "docs"}) =>
        WorklistPaths = {JoinRoot(project_path, "src/main.py"),
                         JoinRoot(project_path, "README.md")}

(***************************************************************************)
(* Properties of the commands (SpecCli).                                   *)
(***************************************************************************)
\* no upload of the run has started, none has settled
NoUpload ==
    /\ uploads = [ok |-> 0, fail |-> 0, raised |-> 0, nostat |-> 0]
    /\ \A k \in DOMAIN task : task[k] = "idle"

\* a command of cli.py has passed its health check
CliChecked == impl = "process_project" /\ cpc \notin {"idle", "start"}

\* C12: in cmd_index and cmd_search the health check is the first request;
\* when it fails the command sends nothing else (no indexing run, no upload,
\* no search request) and ends reporting "not accessible"; that report is
\* given in no other case, and the "no results" report of a search only
\* after a passed health check and a search request.
C12_HealthGate ==
    /\ (impl = "process_project" /\ (requests # << >> \/ pc # "wait" \/ ~NoUpload)) =>
            requests[1] = "health"
    /\ (CliChecked /\ ~healthy) =>
            /\ requests = <<"health">>
            /\ pc = "wait"
            /\ NoUpload
            /\ cpc = "exit" => (report = "not_accessible" /\ exit_code = 1)
    /\ (CliChecked /\ healthy) => report # "not_accessible"
    /\ report = "no_results" => (healthy /\ requests = <<"health", "search">>)

C12_Witness ==
    /\ command = "index"
    /\ cpc = "exit"
    /\ root_exists
    /\ Len(listing) >= 2
    /\ response = [kind |-> "timeout", status |-> 0]
    /\ ~healthy
    /\ report = "not_accessible"
    /\ requests = <<"health">>
    /\ NoUpload

\* C13 (as stated): a run whose walker finds no file returns zero statistics
\* without error and without an upload, and the index command of cli.py does
\* not end with exit code 1.
C13_EmptyNotFailure ==
    (impl = "process_project" /\ command = "index" /\ pc = "done"
        /\ Len(files_to_process) = 0) =>
        /\ stats = NewStats(0)
        /\ NoUpload
        /\ cpc = "exit" => (report = "no_files" /\ exit_code # 1)

\* C14: a run on a root path that does not exist ends in the error outcome
\* at once: the walker never runs, nothing is enumerated, no upload is made,
\* the statistics stay untouched; the index command then exits non-zero.
C14_MissingRootFatal ==
    /\ ~root_exists =>
            /\ pc \in {"wait", "start", "error"}
            /\ files_to_process = << >>
            /\ stats = NewStats(0)
            /\ NoUpload
            /\ batches = << >>
            /\ (cpc = "exit" /\ pc = "error") => exit_code \notin {0 - 1, 0}
    /\ (pc = "error" /\ batch_size # 0) => ~root_exists

C14_Witness ==
    /\ impl = "process_project"
    /\ command = "index"
    /\ ~root_exists
    /\ healthy
    /\ pc = "error"
    /\ cpc = "exit"
    /\ report = "indexing_failed"
    /\ exit_code = 1

(***************************************************************************)
(* Properties of the functions that interpret an HTTP response (SpecHttp). *)
(***************************************************************************)
\* C15: each of the three health checks returns a boolean for every outcome
\* of its request: true for status 200, false for status 503, false when the
\* request times out or fails otherwise (nothing is raised to the caller).
C15_HealthCheckOutcomes ==
    /\ (hpc = "responded" /\ caller \in HealthChecks) =>
            Interpret(caller, response) \in BOOLEAN
    /\ (hpc = "returned" /\ caller \in HealthChecks) =>
            /\ response = [kind |-> "status", status |-> 200] => returned
            /\ response = [kind |-> "status", status |-> 503] => ~returned
            /\ response.kind \in Failures => ~returned

C15_Witness ==
    /\ hpc = "returned"
    /\ caller = "RAGServerManager._check_rag_api_health"
    /\ response = [kind |-> "timeout", status |-> 0]
    /\ ~returned

\* C16 (as stated): an upload and a health check count exactly the statuses
\* 200..299 as success; every other status and every failed request as failure.
C16_Any2xxSucceeds ==
    hpc = "returned" =>
        returned = (response.kind = "status" /\ 200 <= response.status
                                             /\ response.status <= 299)

(***************************************************************************)
(* Properties of the classifier and the inclusion filter (SpecFilter).     *)
(***************************************************************************)
\* the test patterns of the pipeline m
TestPatterns(m) == IF m = "index_project" THEN sc_test_patterns ELSE test_patterns

\* the three extension sets of the pipeline m
KnownExtensions(m) ==
    IF m = "index_project"
    THEN sc_code_extensions \cup sc_doc_extensions \cup sc_config_extensions
    ELSE code_extensions \cup doc_extensions \cup config_extensions

\* per pipeline and path: the lower-cased path string contains a test pattern
TestIndicator ==
    [m \in Impls |-> [p \in Paths |-> \E pat \in TestPatterns(m) : Contains(Lower(p), pat)]]

\* per pipeline and path: the lower-cased extension is in one of the three sets
ExtensionKnown == [m \in Impls |-> [p \in Paths |-> Lower(Suffix(p)) \in KnownExtensions(m)]]

HasTestIndicator == TestIndicator[impl][file_path]

\* C7: a path whose lower-cased string contains a test pattern is classified
\* TEST whatever its extension.
C7_TestWins ==
    (fpc \in {"classified", "filtered"} /\ HasTestIndicator) => doc_type = "test"

C7_Witness ==
    /\ fpc = "classified"
    /\ impl = "index_project"
    /\ HasTestIndicator
    /\ file_path = "tests/README.md"
    /\ doc_type = "test"

\* C8: the classifier returns one of the five DocumentType values, and OTHER
\* for a path without test pattern whose extension is in none of the sets.
C8_Total ==
    fpc \in {"classified", "filtered"} =>
        /\ doc_type \in DocumentType
        /\ (~HasTestIndicator /\ ~ExtensionKnown[impl][file_path]) => doc_type = "other"

C8_Witness ==
    /\ fpc = "classified"
    /\ file_path = "src/Makefile"
    /\ doc_type = "other"

\* per pipeline and path: a directory segment of the path is a deny-list name
DeniedDir ==
    [m \in Impls |-> [p \in Paths |->
        \E k \in 1..(Len(Parts(p)) - 1) : Parts(p)[k] \in DenyList(m)]]

UnderDeniedDir == DeniedDir[impl][file_path]

\* C9: a path under a deny-listed directory is rejected by the filter for
\* every inclusion spec, 'all' included.
C9_DenyAbsolute ==
    (fpc = "filtered" /\ UnderDeniedDir) => ~included

C9_Witness ==
    /\ fpc = "filtered"
    /\ impl = "index_project"
    /\ file_path = "src/node_modules/main.py"
    /\ include_patterns = Patterns
    /\ ~included

\* per path: a segment starts with "." and the file name is not an allowed dotfile
HiddenNotAllowed ==
    [p \in Paths |->
        /\ \E k \in 1..Len(Parts(p)) : StartsWith(Parts(p)[k], ".")
        /\ Name(p) \notin {".gitignore", ".env.example", ".dockerignore"}]

\* C17 (as stated): a path with a segment starting with "." whose file name is
\* not an allowed dotfile is rejected by the filter of either pipeline, for
\* every inclusion spec.
C17_HiddenRejected ==
    (fpc = "filtered" /\ HiddenNotAllowed[file_path]) => ~included

\* per path: an allowed dotfile whose directory segments are neither hidden
\* nor deny-list names
AllowedDotfilePlain ==
    [p \in Paths |->
        /\ Name(p) \in {".gitignore", ".env.example", ".dockerignore"}
        /\ \A k \in 1..(Len(Parts(p)) - 1) :
              ~StartsWith(Parts(p)[k], ".") /\ Parts(p)[k] \notin skip_dirs]

\* C18 (as stated): _should_process_file returns true for an allowed dotfile
\* in an ordinary directory when the inclusion spec contains 'all'.
C18_AllowedDotfileKept ==
    (fpc = "filtered" /\ impl = "index_project" /\ "all" \in include_patterns
        /\ AllowedDotfilePlain[file_path]) => included

\* per pipeline and path: the deny-list rule of the pipeline rejects the path
DenyRuleRejects == [m \in Impls |-> [p \in Paths |-> DenyRejects(p, DenyList(m))]]

\* C19 (as stated): with the include-all override the filter includes exactly
\* the files that pass the hidden-path, the deny-list and the size exclusion,
\* whatever their category.
C19_AllOverride ==
    (fpc = "filtered" /\ "all" \in include_patterns) =>
        included = (/\ ~HiddenNotAllowed[file_path]
                    /\ ~DenyRuleRejects[impl][file_path]
                    /\ stat_ok /\ st_size <= SizeLimit)

\* per path and inclusion spec: what the rules of _should_include_file other
\* than the size rule decide
OtherRulesKeep ==
    [p \in Paths |-> [patterns \in SUBSET Patterns |->
        /\ ~DenyRejects(p, exclusions)
        /\ FlagGate(_classify_document(p), Flag(patterns, "code"), Flag(patterns, "docs"),
                    Flag(patterns, "configs"), Flag(patterns, "tests"))]]

\* C20: _should_include_file rejects every file larger than 10 * 1024 * 1024
\* bytes and every file whose size lookup raises OSError; for a file of
\* exactly 10 * 1024 * 1024 bytes the size plays no part in the result; for
\* every inclusion spec.
C20_SizeCeiling ==
    (fpc = "filtered" /\ impl = "process_project") =>
        /\ (stat_ok /\ st_size > 10 * 1024 * 1024) => ~included
        /\ ~stat_ok => ~included
        /\ (stat_ok /\ st_size = 10 * 1024 * 1024) =>
              included = OtherRulesKeep[file_path][include_patterns]

C20_Witness ==
    /\ fpc = "filtered"
    /\ impl = "process_project"
    /\ file_path = "src/main.py"
    /\ include_patterns = {"code"}
    /\ stat_ok
    /\ st_size = 10 * 1024 * 1024
    /\ included

\* C10 (as stated): with the four flags false and no 'all', the filter rejects
\* every file.
C10_EmptySpecRejectsAll ==
    (fpc = "filtered" /\ include_patterns = {}) => ~included


\* C21 (as stated): a language tag is derived only when the category is CODE: after the
\* metadata calls, a file whose category is not "code" has language None, and a "code"
\* file has the language of its extension, None when the table has no entry.
C21_LanguageOnlyForCode ==
    fpc = "classified" =>
        language = (IF doc_type = "code"
                    THEN Get(IF impl = "index_project" THEN extension_map ELSE language_map,
                             Lower(Suffix(file_path)))
                    ELSE "none")

\* per pipeline and path: a segment of the path equals a name of the deny-list
SegmentDenied ==
    [m \in Impls |-> [p \in Paths |->
        \E k \in 1..Len(Parts(p)) : Parts(p)[k] \in DenyList(m)]]

\* C22 (as stated): the deny-list rule rejects a file only when one of its path
\* segments equals a deny-list name: with the include-all override, a file with
\* no such segment that passes the other exclusions (hidden-path in
\* _should_process_file, size in _should_include_file) is included.
C22_DenyBySegment ==
    (/\ fpc = "filtered"
     /\ "all" \in include_patterns
     /\ ~SegmentDenied[impl][file_path]
     /\ impl = "index_project" => ~HiddenNotAllowed[file_path]
     /\ impl = "process_project" => (stat_ok /\ st_size <= SizeLimit)) => included

\* C23: in an indexing run (index_project with batch_size >= 1, process_project) the
\* upload of a worklist item is started at most once, whatever the outcomes of the
\* uploads: a settled upload, failed and raised ones included, is never started again,
\* and when the run returns every item whose metadata was built has been uploaded
\* exactly once.
C23_UploadOnce ==
    (impl = "index_project" => batch_size >= 1) =>
        /\ \A k \in DOMAIN attempts : attempts[k] <= 1
        /\ uploads.ok + uploads.fail + uploads.raised
              = Cardinality({k \in DOMAIN attempts : attempts[k] >= 1 /\ task[k] \in Settled})
        /\ pc = "done" =>
              Cardinality({k \in DOMAIN attempts : attempts[k] = 1})
                  = Len(files_to_process) - uploads.nostat

C23_Witness ==
    /\ pc = "done"
    /\ impl = "index_project"
    /\ batch_size = 2
    /\ Len(batches) = 2
    /\ uploads.fail >= 1 /\ uploads.raised >= 1
    /\ \A k \in DOMAIN attempts : attempts[k] = 1

\* what C24 requires of every state of a run
C24_Counts ==
    /\ missed # {} => pc # "error"
    /\ \A k \in missed : task[k] \in {"fail", "counted"}
    /\ stats.failed >= Cardinality({k \in missed : task[k] = "counted"})
    /\ stats.successful <= Cardinality({k \in DOMAIN task \ missed : task[k] = "counted"})
    /\ (pc = "done" /\ missed # {}) =>
          /\ \A k \in DOMAIN task : task[k] = "counted"
          /\ stats.successful + stats.failed = stats.total_files
          /\ \A k \in DOMAIN attempts \ missed :
                \/ attempts[k] = 1
                \/ uploads.nostat > Cardinality({j \in missed : attempts[j] = 0})

\* C24: a file deleted after the walk and before its upload (its stat() or open()
\* finds it missing) is counted as one failed item and never as a successful one;
\* the run does not end in an error, it returns its statistics, and every other item
\* is still uploaded (unless its own stat() raised); for every point of the run at
\* which the deletion happens.
C24_DeletedFileFails ==
    /\ []C24_Counts
    /\ (missed # {}) ~> (pc = "done")

C24_Witness ==
    /\ pc = "done"
    /\ impl = "process_project"
    /\ stats.total_files = 2
    /\ missed = {1}
    /\ attempts = <<1, 1>>
    /\ stats.failed = 1
    /\ stats.successful = 1

\* C25: in process_project an item whose metadata was built (its upload was called)
\* adds exactly 1 to the by_type count of its category once its upload has ended,
\* whether it succeeded or failed; an item whose metadata construction raised adds 1
\* to failed and nothing to by_type; when the run returns, the by_type counts sum to
\* total_files minus the number of items whose metadata construction raised.
C25_ByTypeCountsBuilt ==
    (impl = "process_project" /\ Walked) =>
        /\ \A t \in DocumentType :
              stats.by_type[t] =
                  Cardinality({k \in DOMAIN task :
                                  /\ task[k] = "counted"
                                  /\ attempts[k] = 1
                                  /\ FileTypeOf[impl][files_to_process[k]] = t})
        /\ stats.failed = uploads.fail + uploads.raised + uploads.nostat
        /\ uploads.nostat = Cardinality({k \in DOMAIN task : task[k] = "counted" /\ attempts[k] = 0})
        /\ pc = "done" => SumByType = stats.total_files - uploads.nostat

C25_Witness ==
    /\ pc = "done"
    /\ impl = "process_project"
    /\ stats.total_files = 2
    /\ uploads.fail = 1 /\ uploads.nostat = 1
    /\ SumByType = 1
    /\ stats.failed = 2

\* C28 (as stated): for every batch_size, batch_size <= 0 included, index_project on
\* a non-empty worklist either fails with an error or returns statistics with
\* successful + failed = total_files.
C28_NoItemUncounted ==
    (impl = "index_project" /\ pc = "done" /\ Len(files_to_process) > 0) =>
        stats.successful + stats.failed = stats.total_files

\* C26 (as stated): search with mode HYBRID sends the requests search with mode
\* SEMANTIC sends for the same query, limit and filters (RAGClient.search and
\* SuperClaudeRAGClient.search).
C26_HybridIsSemantic ==
    (smode = "hybrid" /\ spc \in {"query", "returned"}) =>
        IF sclient = "RAGClient"
        THEN sent = <<search_data(squery, slimit, "semantic", sfile_types)>>
        ELSE /\ sent[1] = ids_request
             /\ Len(sent) = 2 =>
                   sent[2] = RouteRequest(sc_search_route("semantic"), squery,
                                          sent[2].file_ids, slimit)

(***************************************************************************)
(* Properties of a lifecycle operation (SpecMgr, FairSpecMgr).             *)
(***************************************************************************)
\* the positions at which a command of the given kind was issued
Issued(c) == {k \in DOMAIN commands : commands[k].cmd = c}

\* the command of the given kind was issued and failed
Failed(c) == \E k \in Issued(c) : commands[k].rc # 0

C27_StartSafe ==
    /\ Issued("up") # {} => prereq = "passed"
    /\ polls # << >> => \E k \in Issued("up") : commands[k].rc = 0
    /\ Len(polls) <= max_retries
    /\ \A k \in DOMAIN polls : polls[k] => (k = Len(polls) /\ mpc = "returned")
    /\ mpc = "returned" =>
          /\ mresult \in {"true", "false"}
          /\ mresult = "true" <=> (polls # << >> /\ polls[Len(polls)])
          /\ (op = "start_server" /\ mresult = "false") =>
                \/ prereq = "failed" /\ Issued("up") = {} /\ polls = << >>
                \/ Failed("up") /\ polls = << >>
                \/ Len(polls) = max_retries /\ \A k \in DOMAIN polls : ~polls[k]
    /\ mpc # "returned" => mresult = "none"

\* C27: start_server always returns; "compose up" is issued only after the
\* prerequisites check passed; at most 30 health checks follow; the first healthy
\* check ends the polling with true; the result is false exactly when the
\* prerequisites check failed, "compose up" failed, or 30 checks were all unhealthy.
C27_StartTerminates == []C27_StartSafe /\ <>(mpc = "returned")

\* start_server returned true at the 30th health check, after 29 unhealthy ones
C27_Witness ==
    /\ op = "start_server"
    /\ mpc = "returned"
    /\ mresult = "true"
    /\ prereq = "passed"
    /\ Len(polls) = max_retries

\* C29: after a failed "compose down", restart_server has returned false with no
\* prerequisites check, no "compose up" and no health check issued; after a failed
\* pull, update_services has returned false with no "compose down" and no
\* "compose up" issued; "compose up" in a restart or update follows a successful
\* "compose down".
C29_StartOnlyAfterStop ==
    /\ Failed("down") =>
          /\ mpc = "returned" /\ mresult = "false"
          /\ Issued("up") = {} /\ Issued("docker_version") = {}
          /\ prereq = "none" /\ polls = << >>
    /\ Failed("pull") =>
          /\ mpc = "returned" /\ mresult = "false"
          /\ Issued("down") = {} /\ Issued("up") = {}
          /\ prereq = "none" /\ polls = << >>
    /\ op \in {"restart_server", "update_services"} =>
          \A k \in Issued("up") \cup Issued("docker_version") :
              \E j \in Issued("down") : j < k /\ commands[j].rc = 0
    /\ op = "update_services" =>
          \A k \in Issued("down") : \E j \in Issued("pull") : j < k /\ commands[j].rc = 0

\* restart_server returned false on a failed "compose down", nothing else issued
C29_Witness ==
    /\ op = "restart_server"
    /\ mpc = "returned"
    /\ mresult = "false"
    /\ commands = <<[cmd |-> "down", rc |-> 1]>>
    /\ polls = << >>

\* C30 (as stated): in rag_manager.py, for each of the four deployment types
\* health_check returns true in some environment; health_check only asks services to
\* be up, so this says that it returns true when every service is up and the key set.
C30_EveryDeploymentCanBeHealthy ==
    (mgr = "rag_manager" /\ polls # << >> /\ env = AllUp) => polls[Len(polls)]

\* rag_manager.py with the production deployment: no health check is healthy and no
\* operation returns true
C30_ProductionNeverHealthy ==
    (mgr = "rag_manager" /\ deployment = "production") =>
        /\ \A k \in DOMAIN polls : ~polls[k]
        /\ mresult # "true"


============================================================================
